---- MODULE Spec2Model ----
(***************************************************************************)
(* A model of the media query parser (src/src/media_query.rs) and of the   *)
(* border-radius declaration handler (src/src/properties/border_radius.rs).*)
(*                                                                         *)
(* The parser reads a token stream.  A token is a string: an identifier,   *)
(* "(" (the start of a parenthesis block), ")", ",", ":", a delimiter      *)
(* ("=", ">", "<"), "1"/"2" (a number) or "ws" (white space, which         *)
(* Parser::next skips and Parser::position does not).                      *)
(***************************************************************************)
EXTENDS Integers, Sequences, FiniteSets, TLC

VARIABLES
  \* ---- MediaList::parse ----
  input,          \* the token stream handed to MediaList::parse
  pos,            \* the cursor of the parser: index of the next token
  media_queries,  \* the vector being filled by the loop
  pc,             \* "input" | "loop" | "done" | "unreachable"
  iters,          \* number of loop iterations executed
  \* ---- BorderRadiusHandler ----
  targets,        \* Option<Browsers>: <<>> or <<prefix set the targets need>>
  top_left, top_right, bottom_left, bottom_right,   \* Option<(value, prefixes)>
  start_start, start_end, end_start, end_end,       \* Option<Property>
  category,       \* PropertyCategory
  has_any,        \* the dirty flag
  dest,           \* the DeclarationList the handler pushes to
  rules,          \* the pairs registered through context.add_logical_rule
  logical_supported,  \* the answer of context.is_supported
  fed,            \* the properties handed to handle_property so far
  ret,            \* what each of those calls returned
  hpc             \* "open" | "finalized"

pvars == <<input, pos, media_queries, pc, iters>>
hvars == <<targets, top_left, top_right, bottom_left, bottom_right,
           start_start, start_end, end_start, end_end, category, has_any,
           dest, rules, logical_supported, fed, ret, hpc>>
vars == <<pvars, hvars>>

-----------------------------------------------------------------------------
(* Bounds of the model. *)

\* longest token stream of the list specification
MaxTokens == 5
\* most groups and keywords in a stream of the condition specification
MaxCost == 6
\* most properties handed to one handler, of any kind
MaxInputs == 2
\* most properties handed to one handler, parsed corner longhands only
MaxFeed == 3

\* tokens of a feature group after the feature name
MaxFeature == 5

\* identifiers and groups of a query
MaxQuery == 4

-----------------------------------------------------------------------------
(* Tokens (cssparser::Token, as far as this file matches on it). *)

Idents == {"not", "only", "and", "or", "all", "print", "screen",
           "a", "b", "c", "width", "NOT", "AND", "Screen", "Foo"}

IsIdent(t) == t \in Idents

\* match_ignore_ascii_case! / eq_ignore_ascii_case
Lower(t) ==
  CASE t = "NOT" -> "not"
    [] t = "AND" -> "and"
    [] t = "Screen" -> "screen"
    [] t = "Foo" -> "foo"
    [] OTHER -> t

Min(a, b) == IF a < b THEN a ELSE b

\* `let v = x; F(v)`: x is computed once and F reads the result, as a `let`
\* binding of the code does.
Let(x, F(_)) == CHOOSE y \in {F(v) : v \in {x}} : TRUE

\* Parser::skip_whitespace, up to the delimiter at lim
RECURSIVE SkipWs(_, _, _)
SkipWs(toks, p, lim) ==
  IF p < lim /\ toks[p] = "ws" THEN SkipWs(toks, p + 1, lim) ELSE p

\* consume_until_end_of_block: the index of the ")" that closes the block
\* whose content starts at p (depth counts the blocks opened since), or
\* Len(toks) + 1 when the block is not closed before the end of the input.
RECURSIVE CloseFrom(_, _, _)
CloseFrom(toks, p, depth) ==
  IF p > Len(toks) THEN Len(toks) + 1
  ELSE IF toks[p] = ")"
       THEN IF depth = 0 THEN p ELSE CloseFrom(toks, p + 1, depth - 1)
  ELSE IF toks[p] = "(" THEN CloseFrom(toks, p + 1, depth + 1)
  ELSE CloseFrom(toks, p + 1, depth)

MatchClose(toks, open) == CloseFrom(toks, open + 1, 0)

\* The cursor after the token at p: a block start is followed by its whole
\* block, which the parser skips unless parse_nested_block enters it.
AfterToken(toks, p) ==
  IF toks[p] = "(" THEN Min(MatchClose(toks, p) + 1, Len(toks) + 1) ELSE p + 1

\* Parser::next of a parser that stops before index lim (a delimiter of
\* stop_before, or the end of the input): at is the index of the token.
ParserNext(toks, p, lim) ==
  Let(SkipWs(toks, p, lim), LAMBDA q :
    IF q >= lim THEN [ok |-> FALSE, tok |-> "", at |-> q, pos |-> q]
    ELSE [ok |-> TRUE, tok |-> toks[q], at |-> q,
          pos |-> AfterToken(toks, q)])

\* Parser::expect_exhausted
Exhausted(toks, p, lim) == ~ParserNext(toks, p, lim).ok

\* The delimiter parse_until_before(Delimiter::Comma) stops at: the first
\* comma from p on that is in no block, or Len(toks) + 1.
RECURSIVE SegEnd(_, _)
SegEnd(toks, p) ==
  IF p > Len(toks) THEN Len(toks) + 1
  ELSE IF toks[p] = "," THEN p
  ELSE Let(AfterToken(toks, p), LAMBDA q : SegEnd(toks, q))

-----------------------------------------------------------------------------
(* The syntax tree. Option<T> is a sequence of at most one T. *)

None == <<>>
Some(x) == <<x>>

Feature(name, operator, value) ==
  [tag |-> "Feature", name |-> name, operator |-> operator, value |-> value]
Not(c) == [tag |-> "Not", inner |-> c]
Operation(cs, op) == [tag |-> "Operation", conditions |-> cs, op |-> op]
InParens(c) == [tag |-> "InParens", inner |-> c]

Fail == [ok |-> FALSE, pos |-> 0]
Ok(v, p) == [ok |-> TRUE, val |-> v, pos |-> p]

\* Qualifier::parse
QualifierParse(toks, p, lim) ==
  Let(ParserNext(toks, p, lim), LAMBDA n :
    IF n.ok /\ IsIdent(n.tok) /\ Lower(n.tok) = "only" THEN Ok("Only", n.pos)
    ELSE IF n.ok /\ IsIdent(n.tok) /\ Lower(n.tok) = "not"
         THEN Ok("Not", n.pos)
    ELSE Fail)

\* MediaType::parse
MediaTypeParse(name) ==
  CASE Lower(name) = "all" -> [kind |-> "All", name |-> ""]
    [] Lower(name) = "print" -> [kind |-> "Print", name |-> ""]
    [] Lower(name) = "screen" -> [kind |-> "Screen", name |-> ""]
    [] OTHER -> [kind |-> "Custom", name |-> name]

\* Operator::parse
OperatorParse(toks, p, lim) ==
  Let(ParserNext(toks, p, lim), LAMBDA n :
    IF n.ok /\ IsIdent(n.tok) /\ Lower(n.tok) = "and" THEN Ok("And", n.pos)
    ELSE IF n.ok /\ IsIdent(n.tok) /\ Lower(n.tok) = "or" THEN Ok("Or", n.pos)
    ELSE Fail)

\* `=` right after the delimiter that ended at p (the try_parse of
\* consume_operation_or_colon)
EqualFollows(toks, p, lim) ==
  Let(ParserNext(toks, p, lim), LAMBDA eq :
    IF eq.ok /\ eq.tok = "=" THEN Ok(TRUE, eq.pos) ELSE Fail)

\* consume_operation_or_colon
ConsumeOperationOrColon(toks, p, lim) ==
  Let(ParserNext(toks, p, lim), LAMBDA n :
    IF ~n.ok THEN Fail
    ELSE IF n.tok = ":" THEN Ok(None, n.pos)
    ELSE IF n.tok = "=" THEN Ok(Some("Equal"), n.pos)
    ELSE IF n.tok \in {">", "<"}
         THEN Let(EqualFollows(toks, n.pos, lim), LAMBDA eq :
                IF n.tok = ">"
                THEN IF eq.ok THEN Ok(Some("GreaterThanEqual"), eq.pos)
                     ELSE Ok(Some("GreaterThan"), n.pos)
                ELSE IF eq.ok THEN Ok(Some("LessThanEqual"), eq.pos)
                     ELSE Ok(Some("LessThan"), n.pos))
    ELSE Fail)

\* exhaust: the slice from the cursor to the end of the parser's input
Exhaust(toks, p, lim) ==
  IF p >= lim THEN <<>> ELSE SubSeq(toks, p, lim - 1)

\* MediaFeatureExpression::parse_in_parenthesis_block
FeatureParse(toks, p, lim) ==
  Let(ParserNext(toks, p, lim), LAMBDA n :
    IF ~(n.ok /\ IsIdent(n.tok)) THEN Fail
    ELSE Let(ConsumeOperationOrColon(toks, n.pos, lim), LAMBDA operator :
           IF ~operator.ok THEN Ok(Feature(n.tok, None, None), n.pos)
           ELSE Ok(Feature(n.tok, operator.val,
                           Some(Exhaust(toks, operator.pos, lim))),
                   lim)))

RECURSIVE CondParse(_, _, _, _)
RECURSIVE ParseParenBlock(_, _)
RECURSIVE ParseInParens(_, _, _)
RECURSIVE CondLoop(_, _, _, _, _)

\* parse_paren_block whose parse_nested_block does not require the content
\* to be exhausted
ParseParenBlockNotExhausted(toks, open) ==
  Let(MatchClose(toks, open), LAMBDA lim :
  Let(CondParse(toks, open + 1, lim, TRUE), LAMBDA inner :
  Let(IF inner.ok THEN Ok(InParens(inner.val), inner.pos)
      ELSE FeatureParse(toks, open + 1, lim), LAMBDA r :
    IF r.ok THEN Ok(r.val, AfterToken(toks, open)) ELSE Fail)))

\* MediaCondition::parse_paren_block, for the block that starts at open:
\* parse_nested_block runs the closure on the block's content and then
\* requires the content to be exhausted. The cursor of the outer parser
\* ends after the block whatever the result.
ParseParenBlock(toks, open) ==
  Let(MatchClose(toks, open), LAMBDA lim :
  Let(CondParse(toks, open + 1, lim, TRUE), LAMBDA inner :
  \* a Feature record is the MediaCondition::Feature of the expression
  Let(IF inner.ok THEN Ok(InParens(inner.val), inner.pos)
      ELSE FeatureParse(toks, open + 1, lim), LAMBDA r :
    IF r.ok /\ Exhausted(toks, r.pos, lim)
    THEN Ok(r.val, AfterToken(toks, open))
    ELSE Fail)))

\* parse_in_parens that wraps what it parsed in InParens
ParseInParensWrapped(toks, p, lim) ==
  Let(ParserNext(toks, p, lim), LAMBDA n :
    IF n.ok /\ n.tok = "("
    THEN Let(ParseParenBlock(toks, n.at), LAMBDA r :
           IF r.ok THEN Ok(InParens(r.val), r.pos) ELSE Fail)
    ELSE Fail)

\* MediaCondition::parse_in_parens
ParseInParens(toks, p, lim) ==
  Let(ParserNext(toks, p, lim), LAMBDA n :
    IF n.ok /\ n.tok = "(" THEN ParseParenBlock(toks, n.at) ELSE Fail)

\* the loop going on at either keyword, whatever the first one was
RECURSIVE CondLoopAnyKeyword(_, _, _, _, _)
CondLoopAnyKeyword(toks, p, lim, operator, conditions) ==
  Let(ParserNext(toks, p, lim), LAMBDA n :
    IF ~(n.ok /\ IsIdent(n.tok) /\ Lower(n.tok) \in {"and", "or"})
    THEN Ok(Operation(conditions, operator), p)
    ELSE Let(ParseInParens(toks, n.pos, lim), LAMBDA c :
           IF ~c.ok THEN Fail
           ELSE Let(Append(conditions, c.val), LAMBDA cs :
                  CondLoopAnyKeyword(toks, c.pos, lim, operator, cs))))

\* The loop at the end of MediaCondition::parse
CondLoop(toks, p, lim, operator, conditions) ==
  Let(ParserNext(toks, p, lim), LAMBDA n :
    IF ~(n.ok /\ IsIdent(n.tok)
         /\ Lower(n.tok) = (IF operator = "And" THEN "and" ELSE "or"))
    THEN Ok(Operation(conditions, operator), p)
    ELSE Let(ParseInParens(toks, n.pos, lim), LAMBDA c :
           IF ~c.ok THEN Fail
           ELSE Let(Append(conditions, c.val), LAMBDA cs :
                  CondLoop(toks, c.pos, lim, operator, cs))))

\* MediaCondition::parse with the body of the test of line 208 restored:
\* `or` is an error when allow_or holds
CondParseRejectOr(toks, p, lim, allow_or) ==
  Let(ParserNext(toks, p, lim), LAMBDA n :
    IF ~n.ok THEN Fail
    ELSE IF IsIdent(n.tok) /\ Lower(n.tok) = "not"
         THEN Let(ParseInParens(toks, n.pos, lim), LAMBDA inner_condition :
                IF inner_condition.ok
                THEN Ok(Not(inner_condition.val), inner_condition.pos)
                ELSE Fail)
    ELSE IF n.tok # "(" THEN Fail
    ELSE
      Let(ParseParenBlock(toks, n.at), LAMBDA first_condition :
        IF ~first_condition.ok THEN Fail
        ELSE
          Let(OperatorParse(toks, first_condition.pos, lim), LAMBDA operator :
            IF ~operator.ok THEN first_condition
            ELSE IF allow_or /\ operator.val = "Or" THEN Fail
            ELSE
              Let(ParseInParens(toks, operator.pos, lim), LAMBDA second :
                IF ~second.ok THEN Fail
                ELSE CondLoop(toks, second.pos, lim, operator.val,
                              <<first_condition.val, second.val>>)))))

\* MediaCondition::parse
CondParse(toks, p, lim, allow_or) ==
  Let(ParserNext(toks, p, lim), LAMBDA n :
    IF ~n.ok THEN Fail
    ELSE IF IsIdent(n.tok) /\ Lower(n.tok) = "not"
         THEN Let(ParseInParens(toks, n.pos, lim), LAMBDA inner_condition :
                IF inner_condition.ok
                THEN Ok(Not(inner_condition.val), inner_condition.pos)
                ELSE Fail)
    ELSE IF n.tok # "(" THEN Fail
    ELSE
      Let(ParseParenBlock(toks, n.at), LAMBDA first_condition :
        IF ~first_condition.ok THEN Fail
        ELSE
          Let(OperatorParse(toks, first_condition.pos, lim), LAMBDA operator :
            IF ~operator.ok THEN first_condition
            ELSE
              Let(ParseInParens(toks, operator.pos, lim), LAMBDA second :
                IF ~second.ok THEN Fail
                ELSE CondLoop(toks, second.pos, lim, operator.val,
                              <<first_condition.val, second.val>>)))))

\* MediaQuery::parse without the outer try_parse: a qualifier that no
\* identifier follows is kept, and the condition is read after it
QueryRestKeepQualifier(toks, p, lim, q, id) ==
  LET explicit == id.ok /\ IsIdent(id.tok)
      qualifier == IF q.ok THEN Some(q.val) ELSE None
      p2 == IF explicit THEN id.pos ELSE IF q.ok THEN q.pos ELSE p
      media_type == IF explicit THEN MediaTypeParse(id.tok)
                    ELSE [kind |-> "All", name |-> ""]
  IN
  Let(ParserNext(toks, p2, lim), LAMBDA and :
    LET has_and == and.ok /\ IsIdent(and.tok) /\ Lower(and.tok) = "and" IN
    Let(IF ~explicit THEN CondParse(toks, p2, lim, TRUE)
        ELSE IF has_and THEN CondParse(toks, and.pos, lim, FALSE)
        ELSE Ok(None, p2), LAMBDA condition :
      IF ~condition.ok THEN Fail
      ELSE Ok([qualifier |-> qualifier, media_type |-> media_type,
               condition |-> IF ~explicit \/ has_and THEN Some(condition.val)
                             ELSE None],
              condition.pos)))

\* MediaQuery::parse that reads a condition after an explicit media type
\* whether or not `and` stands between them
QueryRestOptionalAnd(toks, p, lim, q, id) ==
  LET explicit == id.ok /\ IsIdent(id.tok)
      qualifier == IF explicit /\ q.ok THEN Some(q.val) ELSE None
      p2 == IF explicit THEN id.pos ELSE p
      media_type == IF explicit THEN MediaTypeParse(id.tok)
                    ELSE [kind |-> "All", name |-> ""]
  IN
  Let(ParserNext(toks, p2, lim), LAMBDA and :
    LET has_and == and.ok /\ IsIdent(and.tok) /\ Lower(and.tok) = "and" IN
    Let(CondParse(toks, IF has_and THEN and.pos ELSE p2, lim, ~explicit),
        LAMBDA condition :
      IF condition.ok
      THEN Ok([qualifier |-> qualifier, media_type |-> media_type,
               condition |-> Some(condition.val)], condition.pos)
      ELSE IF explicit /\ ~has_and
      THEN Ok([qualifier |-> qualifier, media_type |-> media_type,
               condition |-> None], p2)
      ELSE Fail))

\* The media type and the condition of MediaQuery::parse, after the
\* qualifier q was tried from p and the token id was read after it.
QueryRest(toks, p, lim, q, id) ==
  LET explicit == id.ok /\ IsIdent(id.tok)
      qualifier == IF explicit /\ q.ok THEN Some(q.val) ELSE None
      p2 == IF explicit THEN id.pos ELSE p
      media_type == IF explicit THEN MediaTypeParse(id.tok)
                    ELSE [kind |-> "All", name |-> ""]
  IN
  Let(ParserNext(toks, p2, lim), LAMBDA and :
    LET has_and == and.ok /\ IsIdent(and.tok) /\ Lower(and.tok) = "and" IN
    Let(IF ~explicit THEN CondParse(toks, p2, lim, TRUE)
        ELSE IF has_and THEN CondParse(toks, and.pos, lim, FALSE)
        ELSE Ok(None, p2), LAMBDA condition :
      IF ~condition.ok THEN Fail
      ELSE Ok([qualifier |-> qualifier, media_type |-> media_type,
               condition |-> IF ~explicit \/ has_and THEN Some(condition.val)
                             ELSE None],
              condition.pos)))

\* MediaQuery::parse
QueryParse(toks, p, lim) ==
  Let(QualifierParse(toks, p, lim), LAMBDA q :
  Let(ParserNext(toks, IF q.ok THEN q.pos ELSE p, lim), LAMBDA id :
    QueryRest(toks, p, lim, q, id)))

\* parse_until_before that leaves the cursor where it was when the closure
\* fails, instead of moving it to the delimiter
ParseUntilBeforeCommaNoSkip(toks, p) ==
  Let(SegEnd(toks, p), LAMBDA lim :
  Let(QueryParse(toks, p, lim), LAMBDA mq :
    IF mq.ok /\ Exhausted(toks, mq.pos, lim) THEN Ok(mq.val, lim)
    ELSE [ok |-> FALSE, pos |-> p]))

\* input.parse_until_before(Delimiter::Comma, MediaQuery::parse) from p:
\* the closure runs on the tokens before the delimiter and must exhaust them.
ParseUntilBeforeComma(toks, p) ==
  Let(SegEnd(toks, p), LAMBDA lim :
  Let(QueryParse(toks, p, lim), LAMBDA mq :
    IF mq.ok /\ Exhausted(toks, mq.pos, lim) THEN Ok(mq.val, lim)
    ELSE [ok |-> FALSE, pos |-> lim]))

\* MediaList::parse as a function of the token stream: the loop from the
\* cursor p on, with the queries pushed so far
RECURSIVE MediaListParse(_, _, _)
MediaListParse(toks, p, queries) ==
  Let(ParseUntilBeforeComma(toks, p), LAMBDA r :
  Let(ParserNext(toks, r.pos, Len(toks) + 1), LAMBDA n :
  Let(IF r.ok THEN Append(queries, r.val) ELSE queries, LAMBDA pushed :
    IF n.ok /\ n.tok = "," THEN MediaListParse(toks, n.pos, pushed)
    ELSE pushed)))

-----------------------------------------------------------------------------
(* MediaList::parse as a state machine: the token stream is built first    *)
(* (pc = "input"), then the function runs, one loop iteration per step.    *)

PInit ==
  /\ input = <<>>
  /\ pos = 1
  /\ media_queries = <<>>
  /\ pc = "input"
  /\ iters = 0

ListTokens == {"a", "not", "and", "(", ")", ",", ":"}

\* The caller tokenizes one more token of the prelude.
AppendToken(t) ==
  /\ pc = "input"
  /\ Len(input) < MaxTokens
  /\ input' = Append(input, t)
  /\ UNCHANGED <<pos, media_queries, pc, iters>>

\* `(a: 1)`, `(b: 2)`, ` and `, ` or `
CondChunks ==
  {<<"(", "a", ":", "ws", "1", ")">>, <<"(", "b", ":", "ws", "2", ")">>,
   <<"ws", "and", "ws">>, <<"ws", "or", "ws">>}

\* the groups and keywords of a stream
Cost(toks) ==
  Cardinality({i \in 1..Len(toks) : toks[i] \in {"(", "and", "or"}})

\* The caller tokenizes one more group or keyword of the prelude.
AppendChunk(c) ==
  /\ pc = "input"
  /\ Cost(input) < MaxCost
  /\ input' = input \o c
  /\ UNCHANGED <<pos, media_queries, pc, iters>>

\* The prelude so far turns out to be inside a parenthesis block.
Wrap ==
  /\ pc = "input"
  /\ input # <<>>
  /\ Cost(input) < MaxCost
  /\ input' = <<"(">> \o input \o <<")">>
  /\ UNCHANGED <<pos, media_queries, pc, iters>>

\* what can follow the feature name in a group
FeatureTokens == {":", "=", ">", "<", "ws", "100px"}

\* The caller tokenizes one more token of the group `(width ...)`; the
\* tokenizer gives no two white space tokens in a row.
AppendFeatureToken(t) ==
  /\ pc = "input"
  /\ Len(input) < MaxFeature + 3
  /\ ~(t = "ws" /\ input[Len(input) - 1] = "ws")
  /\ input' = SubSeq(input, 1, Len(input) - 1) \o <<t, ")">>
  /\ UNCHANGED <<pos, media_queries, pc, iters>>

\* `not`, `all`, `Screen`, `Foo`, `and`, `(a)`, `(:)`
QueryChunks ==
  {<<"not">>, <<"all">>, <<"Screen">>, <<"Foo">>, <<"and">>,
   <<"(", "a", ")">>, <<"(", ":", ")">>}

\* the identifiers and groups of a query
QueryCost(toks) ==
  Cardinality({i \in 1..Len(toks) :
                 toks[i] \in {"not", "all", "Screen", "Foo", "and", "("}})

\* The caller tokenizes one more identifier or group of the query.
AppendQueryChunk(c) ==
  /\ pc = "input"
  /\ QueryCost(input) < MaxQuery
  /\ input' = input \o c
  /\ UNCHANGED <<pos, media_queries, pc, iters>>

\* Entry of MediaList::parse: let mut media_queries = vec![]
Begin ==
  /\ pc = "input"
  /\ pc' = "loop"
  /\ pos' = 1
  /\ media_queries' = <<>>
  /\ UNCHANGED <<input, iters>>

\* MediaQuery::never_matching(): the query `not all`
NeverMatching ==
  [qualifier |-> Some("Not"), media_type |-> [kind |-> "All", name |-> ""],
   condition |-> None]

\* The loop with line 32 in force: a failed segment pushes `not all`.
IteratePlaceholder ==
  /\ pc = "loop"
  /\ LET r == ParseUntilBeforeComma(input, pos)
         n == ParserNext(input, r.pos, Len(input) + 1)
     IN
     /\ media_queries' = Append(media_queries,
                                IF r.ok THEN r.val ELSE NeverMatching)
     /\ pos' = n.pos
     /\ pc' = IF ~n.ok THEN "done"
              ELSE IF n.tok = "," THEN "loop"
              ELSE "unreachable"
  /\ iters' = iters + 1
  /\ UNCHANGED input

\* One iteration of the loop of MediaList::parse
Iterate ==
  /\ pc = "loop"
  /\ LET r == ParseUntilBeforeComma(input, pos)
         n == ParserNext(input, r.pos, Len(input) + 1)
     IN
     /\ media_queries' = IF r.ok THEN Append(media_queries, r.val)
                         ELSE media_queries
     /\ pos' = n.pos
     /\ pc' = IF ~n.ok THEN "done"
              ELSE IF n.tok = "," THEN "loop"
              ELSE "unreachable"
  /\ iters' = iters + 1
  /\ UNCHANGED input

-----------------------------------------------------------------------------
(* BorderRadiusHandler.                                                    *)
(*                                                                         *)
(* A Size2D value is a number of Vals and a VendorPrefix a set of prefix   *)
(* names. A Property is a record: id, parsed (FALSE for Property::Unparsed,*)
(* whose id is then its property_id), val, and vp, the vendor prefix of    *)
(* the property (empty for the logical properties, which carry none).      *)

Vals == {1, 2}
Prefixes == {"None", "WebKit"}

Corners == <<"top_left", "top_right", "bottom_left", "bottom_right">>
LogicalCorners == <<"start_start", "start_end", "end_start", "end_end">>

PhysicalIds == {"BorderTopLeftRadius", "BorderTopRightRadius",
                "BorderBottomLeftRadius", "BorderBottomRightRadius"}
LogicalIds == {"BorderStartStartRadius", "BorderStartEndRadius",
               "BorderEndStartRadius", "BorderEndEndRadius"}

\* the field of the handler a corner property is kept in
FieldOf(id) ==
  CASE id = "BorderTopLeftRadius" -> "top_left"
    [] id = "BorderTopRightRadius" -> "top_right"
    [] id = "BorderBottomLeftRadius" -> "bottom_left"
    [] id = "BorderBottomRightRadius" -> "bottom_right"
    [] id = "BorderStartStartRadius" -> "start_start"
    [] id = "BorderStartEndRadius" -> "start_end"
    [] id = "BorderEndStartRadius" -> "end_start"
    [] id = "BorderEndEndRadius" -> "end_end"

Prop(id, parsed, val, vp) ==
  [id |-> id, parsed |-> parsed, val |-> val, vp |-> vp]

\* struct BorderRadius
BorderRadiusValue(tl, tr, bl, br) ==
  [top_left |-> tl, top_right |-> tr, bottom_left |-> bl, bottom_right |-> br]

\* is_logical_border_radius_property
is_logical_border_radius_property(property_id) == property_id \in LogicalIds

\* is_border_radius_property
is_border_radius_property(property_id) ==
  \/ is_logical_border_radius_property(property_id)
  \/ property_id \in PhysicalIds \cup {"BorderRadius"}

\* The handler as a record, so that flush and the macros are functions.
Self ==
  [top_left |-> top_left, top_right |-> top_right,
   bottom_left |-> bottom_left, bottom_right |-> bottom_right,
   start_start |-> start_start, start_end |-> start_end,
   end_start |-> end_start, end_end |-> end_end,
   category |-> category, has_any |-> has_any,
   dest |-> dest, rules |-> rules]

\* Feature::X.prefixes_for(targets): the prefixes the targets need
PrefixesFor(t) == t

\* if vp.contains(VendorPrefix::None) { if let Some(targets) = self.targets
\*   { vp = Feature::X.prefixes_for(targets) } }
Expand(vp) ==
  IF "None" \in vp /\ targets # None THEN PrefixesFor(targets[1]) ELSE vp

\* UnparsedProperty::get_prefixed(self.targets, Feature::BorderRadius)
GetPrefixed(property) == [property EXCEPT !.vp = Expand(property.vp)]

\* a flush that forgets to remove the intersection from the corners
RemoveNothing(slot, intersection) == slot

\* tl_prefix.remove(intersection): what is left of a corner after the
\* shorthand took the prefixes of the intersection
RemoveIntersection(slot, intersection) ==
  IF slot = None THEN None
  ELSE Some([slot[1] EXCEPT !.prefixes = @ \ intersection])

\* single_property! that writes one declaration for each prefix of the corner
SinglePropertyPerPrefix(id, slot) ==
  IF slot = None THEN <<>>
  ELSE (IF "None" \in slot[1].prefixes
        THEN <<Prop(id, TRUE, slot[1].val, Expand({"None"}))>> ELSE <<>>)
       \o (IF "WebKit" \in slot[1].prefixes
           THEN <<Prop(id, TRUE, slot[1].val, {"WebKit"})>> ELSE <<>>)

\* single_property! of flush: slot holds what is left of the corner
SingleProperty(id, slot) ==
  IF slot # None /\ slot[1].prefixes # {}
  THEN <<Prop(id, TRUE, slot[1].val, Expand(slot[1].prefixes))>>
  ELSE <<>>

\* logical_property! of flush, what it pushes to dest
LogicalDest(slot) ==
  IF slot # None /\ logical_supported THEN <<slot[1]>> ELSE <<>>

\* logical_property! of flush with the two directions exchanged
LogicalRuleSwapped(slot, ltr, rtl) ==
  LET vp == IF targets # None THEN PrefixesFor(targets[1]) ELSE {"None"} IN
  IF slot # None /\ ~logical_supported
  THEN <<[ltr |-> Prop(rtl, slot[1].parsed, slot[1].val, vp),
          rtl |-> Prop(ltr, slot[1].parsed, slot[1].val, vp)]>>
  ELSE <<>>

\* logical_property! of flush, what it registers with add_logical_rule
LogicalRule(slot, ltr, rtl) ==
  LET vp == IF targets # None THEN PrefixesFor(targets[1]) ELSE {"None"} IN
  IF slot # None /\ ~logical_supported
  THEN <<[ltr |-> Prop(ltr, slot[1].parsed, slot[1].val, vp),
          rtl |-> Prop(rtl, slot[1].parsed, slot[1].val, vp)]>>
  ELSE <<>>

\* a flush that reads the slots without taking them: what it has written
\* stays pending
FlushKeepsSlots(s) ==
  IF ~s.has_any THEN s
  ELSE
    LET all4 == \A i \in 1..4 : s[Corners[i]] # None
        intersection ==
          IF all4
          THEN s.top_left[1].prefixes \cap s.top_right[1].prefixes
               \cap s.bottom_left[1].prefixes \cap s.bottom_right[1].prefixes
          ELSE {}
        shorthand ==
          IF intersection # {}
          THEN <<Prop("BorderRadius", TRUE,
                      BorderRadiusValue(s.top_left[1].val, s.top_right[1].val,
                                        s.bottom_left[1].val,
                                        s.bottom_right[1].val),
                      Expand(intersection))>>
          ELSE <<>>
        Rest(slot) == RemoveIntersection(slot, intersection)
    IN
    [s EXCEPT
       !.has_any = FALSE,
       !.dest = s.dest \o shorthand
                \o SingleProperty("BorderTopLeftRadius", Rest(s.top_left))
                \o SingleProperty("BorderTopRightRadius", Rest(s.top_right))
                \o SingleProperty("BorderBottomLeftRadius", Rest(s.bottom_left))
                \o SingleProperty("BorderBottomRightRadius",
                                  Rest(s.bottom_right))
                \o LogicalDest(s.start_start) \o LogicalDest(s.start_end)
                \o LogicalDest(s.end_start) \o LogicalDest(s.end_end),
       !.rules = s.rules
                 \o LogicalRule(s.start_start, "BorderTopLeftRadius",
                                "BorderTopRightRadius")
                 \o LogicalRule(s.start_end, "BorderTopRightRadius",
                                "BorderTopLeftRadius")
                 \o LogicalRule(s.end_start, "BorderBottomLeftRadius",
                                "BorderBottomRightRadius")
                 \o LogicalRule(s.end_end, "BorderBottomRightRadius",
                                "BorderBottomLeftRadius")]

\* BorderRadiusHandler::flush
Flush(s) ==
  IF ~s.has_any THEN s
  ELSE
    LET all4 == \A i \in 1..4 : s[Corners[i]] # None
        intersection ==
          IF all4
          THEN s.top_left[1].prefixes \cap s.top_right[1].prefixes
               \cap s.bottom_left[1].prefixes \cap s.bottom_right[1].prefixes
          ELSE {}
        shorthand ==
          IF intersection # {}
          THEN <<Prop("BorderRadius", TRUE,
                      BorderRadiusValue(s.top_left[1].val, s.top_right[1].val,
                                        s.bottom_left[1].val,
                                        s.bottom_right[1].val),
                      Expand(intersection))>>
          ELSE <<>>
        Rest(slot) == RemoveIntersection(slot, intersection)
    IN
    [s EXCEPT
       !.has_any = FALSE,
       !.top_left = None, !.top_right = None,
       !.bottom_left = None, !.bottom_right = None,
       !.start_start = None, !.start_end = None,
       !.end_start = None, !.end_end = None,
       !.dest = s.dest \o shorthand
                \o SingleProperty("BorderTopLeftRadius", Rest(s.top_left))
                \o SingleProperty("BorderTopRightRadius", Rest(s.top_right))
                \o SingleProperty("BorderBottomLeftRadius", Rest(s.bottom_left))
                \o SingleProperty("BorderBottomRightRadius",
                                  Rest(s.bottom_right))
                \o LogicalDest(s.start_start) \o LogicalDest(s.start_end)
                \o LogicalDest(s.end_start) \o LogicalDest(s.end_end),
       !.rules = s.rules
                 \o LogicalRule(s.start_start, "BorderTopLeftRadius",
                                "BorderTopRightRadius")
                 \o LogicalRule(s.start_end, "BorderTopRightRadius",
                                "BorderTopLeftRadius")
                 \o LogicalRule(s.end_start, "BorderBottomLeftRadius",
                                "BorderBottomRightRadius")
                 \o LogicalRule(s.end_end, "BorderBottomRightRadius",
                                "BorderBottomLeftRadius")]

\* maybe_flush! that never flushes: the pending value is overwritten
MaybeFlushNever(s, prop, val, vp) == s

\* maybe_flush!
MaybeFlush(s, prop, val, vp) ==
  IF s[prop] # None /\ s[prop][1].val # val /\ ~(vp \subseteq s[prop][1].prefixes)
  THEN Flush(s)
  ELSE s

\* property! without the flush on a change of category
PropertyMacroNoCategoryFlush(s, prop, val, vp) ==
  LET s2 == MaybeFlush(s, prop, val, vp)
      s3 == IF s2[prop] # None
            THEN [s2 EXCEPT ![prop] =
                    Some([val |-> val, prefixes |-> s2[prop][1].prefixes \cup vp])]
            ELSE [s2 EXCEPT ![prop] = Some([val |-> val, prefixes |-> vp]),
                            !.has_any = TRUE]
  IN [s3 EXCEPT !.category = "Physical"]

\* property!
PropertyMacro(s, prop, val, vp) ==
  LET s1 == IF s.category # "Physical" THEN Flush(s) ELSE s
      s2 == MaybeFlush(s1, prop, val, vp)
      s3 == IF s2[prop] # None
            THEN [s2 EXCEPT ![prop] =
                    Some([val |-> val, prefixes |-> s2[prop][1].prefixes \cup vp])]
            ELSE [s2 EXCEPT ![prop] = Some([val |-> val, prefixes |-> vp]),
                            !.has_any = TRUE]
  IN [s3 EXCEPT !.category = "Physical"]

\* logical_property! without the flush on a change of category
LogicalPropertyMacroNoCategoryFlush(s, prop, property) ==
  [s EXCEPT ![prop] = Some(property), !.category = "Logical",
            !.has_any = TRUE]

\* logical_property! of handle_property
LogicalPropertyMacro(s, prop, property) ==
  LET s1 == IF s.category # "Logical" THEN Flush(s) ELSE s IN
  [s1 EXCEPT ![prop] = Some(property), !.category = "Logical",
             !.has_any = TRUE]

\* the BorderRadius(val, vp) arm without lines 177-180: the pending logical
\* corners are kept
ShorthandArmKeepLogical(s, val, vp) ==
  LET f1 == MaybeFlush(s, "top_left", val.top_left, vp)
      f2 == MaybeFlush(f1, "top_right", val.top_right, vp)
      f3 == MaybeFlush(f2, "bottom_left", val.bottom_left, vp)
      f4 == MaybeFlush(f3, "bottom_right", val.bottom_right, vp)
      p1 == PropertyMacro(f4, "top_left", val.top_left, vp)
      p2 == PropertyMacro(p1, "top_right", val.top_right, vp)
      p3 == PropertyMacro(p2, "bottom_left", val.bottom_left, vp)
  IN PropertyMacro(p3, "bottom_right", val.bottom_right, vp)

\* handle_property, the BorderRadius(val, vp) arm
ShorthandArm(s, val, vp) ==
  LET s0 == [s EXCEPT !.start_start = None, !.start_end = None,
                      !.end_start = None, !.end_end = None]
      f1 == MaybeFlush(s0, "top_left", val.top_left, vp)
      f2 == MaybeFlush(f1, "top_right", val.top_right, vp)
      f3 == MaybeFlush(f2, "bottom_left", val.bottom_left, vp)
      f4 == MaybeFlush(f3, "bottom_right", val.bottom_right, vp)
      p1 == PropertyMacro(f4, "top_left", val.top_left, vp)
      p2 == PropertyMacro(p1, "top_right", val.top_right, vp)
      p3 == PropertyMacro(p2, "bottom_left", val.bottom_left, vp)
  IN PropertyMacro(p3, "bottom_right", val.bottom_right, vp)

\* the Unparsed(val) arm without the flush of line 199
UnparsedArmNoFlush(s, property) ==
  IF is_logical_border_radius_property(property.id)
  THEN LogicalPropertyMacro(s, FieldOf(property.id), property)
  ELSE [s EXCEPT !.dest = Append(s.dest, GetPrefixed(property))]

\* handle_property, the Unparsed(val) arm
UnparsedArm(s, property) ==
  IF is_logical_border_radius_property(property.id)
  THEN LogicalPropertyMacro(s, FieldOf(property.id), property)
  ELSE LET s1 == Flush(s) IN
       [s1 EXCEPT !.dest = Append(s1.dest, GetPrefixed(property))]

\* handle_property: TRUE when the match reaches the final `true`
Handled(property) ==
  IF property.parsed
  THEN property.id \in PhysicalIds \cup LogicalIds \cup {"BorderRadius"}
  ELSE is_border_radius_property(property.id)

\* handle_property whose Unparsed arm has no guard: every unparsed
\* declaration is taken for a border-radius one
HandlePropertyAnyUnparsed(s, property) ==
  IF ~property.parsed THEN UnparsedArm(s, property)
  ELSE IF ~Handled(property) THEN s
  ELSE IF property.id \in PhysicalIds
       THEN PropertyMacro(s, FieldOf(property.id), property.val, property.vp)
  ELSE IF property.id \in LogicalIds
       THEN LogicalPropertyMacro(s, FieldOf(property.id), property)
  ELSE ShorthandArm(s, property.val, property.vp)

\* handle_property: the handler after the call
HandleProperty(s, property) ==
  IF ~Handled(property) THEN s
  ELSE IF ~property.parsed THEN UnparsedArm(s, property)
  ELSE IF property.id \in PhysicalIds
       THEN PropertyMacro(s, FieldOf(property.id), property.val, property.vp)
  ELSE IF property.id \in LogicalIds
       THEN LogicalPropertyMacro(s, FieldOf(property.id), property)
  ELSE ShorthandArm(s, property.val, property.vp)

\* The handler's fields become those of the record.
Becomes(s) ==
  /\ top_left' = s.top_left
  /\ top_right' = s.top_right
  /\ bottom_left' = s.bottom_left
  /\ bottom_right' = s.bottom_right
  /\ start_start' = s.start_start
  /\ start_end' = s.start_end
  /\ end_start' = s.end_start
  /\ end_end' = s.end_end
  /\ category' = s.category
  /\ has_any' = s.has_any
  /\ dest' = s.dest
  /\ rules' = s.rules

\* BorderRadiusHandler::new(targets), for a block whose context answers
\* is_supported with logical_supported
HInit ==
  /\ targets \in {None, Some({"None", "WebKit"})}
  /\ logical_supported \in BOOLEAN
  /\ top_left = None /\ top_right = None
  /\ bottom_left = None /\ bottom_right = None
  /\ start_start = None /\ start_end = None
  /\ end_start = None /\ end_end = None
  /\ category = "Physical"
  /\ has_any = FALSE
  /\ dest = <<>>
  /\ rules = <<>>
  /\ fed = <<>>
  /\ ret = <<>>
  /\ hpc = "open"

\* The properties a declaration block hands to the handler.
PhysicalInputs ==
  {Prop(id, TRUE, v, {vp}) : id \in PhysicalIds, v \in Vals, vp \in Prefixes}
ShorthandValues ==
  {BorderRadiusValue(1, 1, 1, 1), BorderRadiusValue(1, 2, 1, 2)}
ShorthandInputs ==
  {Prop("BorderRadius", TRUE, v, {vp}) : v \in ShorthandValues, vp \in Prefixes}
LogicalInputs == {Prop(id, TRUE, v, {}) : id \in LogicalIds, v \in {1}}
UnparsedInputs ==
  {Prop(id, FALSE, 1, {}) : id \in LogicalIds}
  \cup {Prop(id, FALSE, 1, {"None"}) : id \in PhysicalIds \cup {"BorderRadius"}}
OtherInputs == {Prop("Color", TRUE, 1, {}), Prop("Color", FALSE, 1, {})}

\* One call of handle_property, the block holding at most max properties
Handle(property, max) ==
  /\ hpc = "open"
  /\ Len(fed) < max
  /\ Becomes(HandleProperty(Self, property))
  /\ fed' = Append(fed, property)
  /\ ret' = Append(ret, Handled(property))
  /\ UNCHANGED <<targets, logical_supported, hpc>>

HandlePhysical == \E p \in PhysicalInputs : Handle(p, MaxInputs)
HandleShorthand == \E p \in ShorthandInputs : Handle(p, MaxInputs)
HandleLogical == \E p \in LogicalInputs : Handle(p, MaxInputs)
HandleUnparsed == \E p \in UnparsedInputs : Handle(p, MaxInputs)
HandleOther == \E p \in OtherInputs : Handle(p, MaxInputs)

\* finalize
Finalize ==
  /\ hpc = "open"
  /\ Becomes(Flush(Self))
  /\ hpc' = "finalized"
  /\ UNCHANGED <<targets, logical_supported, fed, ret>>

-----------------------------------------------------------------------------
(* Specifications. *)

Init == PInit /\ HInit

\* The handler of one declaration block.
Next ==
  \/ HandlePhysical /\ UNCHANGED pvars
  \/ HandleShorthand /\ UNCHANGED pvars
  \/ HandleLogical /\ UNCHANGED pvars
  \/ HandleUnparsed /\ UNCHANGED pvars
  \/ HandleOther /\ UNCHANGED pvars
  \/ Finalize /\ UNCHANGED pvars

Spec == Init /\ [][Next]_vars

\* The handler of a block of parsed corner longhands.
FeedNext ==
  \/ (\E p \in PhysicalInputs : Handle(p, MaxFeed)) /\ UNCHANGED pvars
  \/ (\E p \in LogicalInputs : Handle(p, MaxFeed)) /\ UNCHANGED pvars
  \/ Finalize /\ UNCHANGED pvars

SpecFeed == Init /\ [][FeedNext]_vars

\* MediaList::parse on every token stream of at most MaxTokens tokens.
ListNext ==
  \/ (\E t \in ListTokens : AppendToken(t)) /\ UNCHANGED hvars
  \/ Begin /\ UNCHANGED hvars
  \/ Iterate /\ UNCHANGED hvars

ListInit == PInit /\ HInit /\ targets = None /\ logical_supported

SpecList == ListInit /\ [][ListNext]_vars

\* MediaList::parse on the streams made of at most MaxCost groups and
\* keywords.
CondNext ==
  \/ (\E c \in CondChunks : AppendChunk(c)) /\ UNCHANGED hvars
  \/ Wrap /\ UNCHANGED hvars
  \/ Begin /\ UNCHANGED hvars
  \/ Iterate /\ UNCHANGED hvars

SpecCond == ListInit /\ [][CondNext]_vars

\* MediaList::parse on one query.
QueryNext ==
  \/ (\E c \in QueryChunks : AppendQueryChunk(c)) /\ UNCHANGED hvars
  \/ Begin /\ UNCHANGED hvars
  \/ Iterate /\ UNCHANGED hvars

SpecQuery == ListInit /\ [][QueryNext]_vars

\* MediaList::parse on the one group `(width ...)`.
FeatureInit ==
  /\ HInit /\ targets = None /\ logical_supported
  /\ input = <<"(", "width", ")">>
  /\ pos = 1
  /\ media_queries = <<>>
  /\ pc = "input"
  /\ iters = 0

FeatureNext ==
  \/ (\E t \in FeatureTokens : AppendFeatureToken(t)) /\ UNCHANGED hvars
  \/ Begin /\ UNCHANGED hvars
  \/ Iterate /\ UNCHANGED hvars

SpecFeature == FeatureInit /\ [][FeatureNext]_vars

-----------------------------------------------------------------------------
(* The claims about MediaList::parse. *)

\* The top-level comma-separated segments of a stream, from p on.
RECURSIVE Segments(_, _)
Segments(toks, p) ==
  LET e == SegEnd(toks, p)
      seg == IF e > p THEN SubSeq(toks, p, e - 1) ELSE <<>>
  IN IF e > Len(toks) THEN <<seg>> ELSE <<seg>> \o Segments(toks, e + 1)

\* MediaQuery::parse on a segment on its own: the query, when the parse
\* succeeds and has consumed the whole segment.
OnItsOwn(seg) ==
  LET r == QueryParse(seg, 1, Len(seg) + 1) IN
  IF r.ok /\ Exhausted(seg, r.pos, Len(seg) + 1) THEN Some(r.val) ELSE None

RECURSIVE Flatten(_)
Flatten(ss) == IF ss = <<>> THEN <<>> ELSE Head(ss) \o Flatten(Tail(ss))

\* C1: MediaList::parse returns a list for every token stream: the branch
\* marked unreachable is never taken, the loop runs at most once per
\* top-level comma-separated segment of the input (so it terminates, and
\* exactly once per segment when it is done), and the list never has more
\* queries than iterations were run, hence than the input has segments.
C1_ParseTotal ==
  /\ pc # "unreachable"
  /\ iters <= Len(Segments(input, 1))
  /\ Len(media_queries) <= iters
  /\ pc = "loop" => pos <= Len(input) + 1
  /\ pc = "done" => iters = Len(Segments(input, 1))

\* C1 witness: the parse is done on a stream of several segments that holds
\* a stray ")" and of which one segment was kept and another dropped.
C1_Witness ==
  /\ pc = "done"
  /\ iters >= 2
  /\ Len(media_queries) = 1
  /\ \E i \in 1..Len(input) : input[i] = ")" /\ MatchClose(input, 0) = i

C10_InvalidIsNotAll ==
  pc = "done" =>
    media_queries =
      [i \in 1..Len(Segments(input, 1)) |->
         IF OnItsOwn(Segments(input, 1)[i]) = None THEN NeverMatching
         ELSE OnItsOwn(Segments(input, 1)[i])[1]]

-----------------------------------------------------------------------------
(* The claims about BorderRadiusHandler. *)

PhysicalIdSeq == <<"BorderTopLeftRadius", "BorderTopRightRadius",
                   "BorderBottomLeftRadius", "BorderBottomRightRadius">>

IsPhysical(p) == p.parsed /\ p.id \in PhysicalIds
IsLogical(p) == p.parsed /\ p.id \in LogicalIds

\* a longhand as a flush emits it
Emitted(p) == [p EXCEPT !.vp = Expand(@)]

\* what a step from dest to the record s appends to the output
Appended(s) == SubSeq(s.dest, Len(dest) + 1, Len(s.dest))

\* d declares the corner of the longhand id with value val
Covers(d, id, val) ==
  /\ d.parsed
  /\ \/ d.id = id /\ d.val = val
     \/ d.id = "BorderRadius" /\ d.val[FieldOf(id)] = val

\* the property is a longhand whose corner is pending with another value
\* and a prefix set that does not contain the property's prefix
Conflicts(s, p) ==
  /\ s[FieldOf(p.id)] # None
  /\ s[FieldOf(p.id)][1].val # p.val
  /\ ~(p.vp \subseteq s[FieldOf(p.id)][1].prefixes)

\* C3: a corner fed twice, the second time with another value and a prefix
\* the pending set does not contain, is declared twice, in input order.
\* From a new handler the two inputs and finalize give exactly the two
\* longhands. From any state the second input appends the pending value to
\* the output, under each prefix pending for it, before it stores its own
\* value with its own prefix alone, and the next flush emits that.
C3_ChangedValueTwoDeclarations ==
  /\ (/\ hpc = "finalized" /\ Len(fed) = 2
      /\ IsPhysical(fed[1]) /\ IsPhysical(fed[2])
      /\ fed[1].id = fed[2].id /\ fed[1].val # fed[2].val
      /\ ~(fed[2].vp \subseteq fed[1].vp))
     => dest = <<Emitted(fed[1]), Emitted(fed[2])>>
  /\ hpc = "open" =>
       \A p \in PhysicalInputs : Conflicts(Self, p) =>
         LET old == Self[FieldOf(p.id)][1]
             after == HandleProperty(Self, p)
             out == Appended(after)
         IN
         /\ after[FieldOf(p.id)] = Some([val |-> p.val, prefixes |-> p.vp])
         /\ \A q \in old.prefixes : \E i \in 1..Len(out) :
              /\ Covers(out[i], p.id, old.val)
              /\ targets = None => q \in out[i].vp
         /\ Flush(after).dest = after.dest \o <<Emitted(p)>>

\* C3 witness: the two inputs were fed and finalize has run.
C3_Witness ==
  /\ hpc = "finalized" /\ Len(fed) = 2
  /\ IsPhysical(fed[1]) /\ IsPhysical(fed[2])
  /\ fed[1].id = fed[2].id /\ fed[1].val # fed[2].val
  /\ ~(fed[2].vp \subseteq fed[1].vp)
  /\ Len(dest) = 2

\* C4: a physical corner, then a logical corner, then a physical corner,
\* then finalize, logical border-radius being supported, give the three
\* declarations in input order. The first physical input is already in the
\* output when the logical one is pending, and the logical one when the
\* second physical one is pending: no flush drains two of them.
C4_PhysicalLogicalPhysical ==
  (/\ Len(fed) >= 2 /\ IsPhysical(fed[1]) /\ IsLogical(fed[2])
   /\ logical_supported)
  =>
  /\ (hpc = "open" /\ Len(fed) = 2) =>
       /\ dest = <<Emitted(fed[1])>>
       /\ \A i \in 1..4 : Self[Corners[i]] = None
  /\ (hpc = "open" /\ Len(fed) = 3 /\ IsPhysical(fed[3])) =>
       /\ dest = <<Emitted(fed[1]), fed[2]>>
       /\ \A i \in 1..4 : Self[LogicalCorners[i]] = None
  /\ (hpc = "finalized" /\ Len(fed) = 3 /\ IsPhysical(fed[3])) =>
       dest = <<Emitted(fed[1]), fed[2], Emitted(fed[3])>>

\* C4 witness: the three inputs were fed and finalize has run.
C4_Witness ==
  /\ hpc = "finalized" /\ Len(fed) = 3 /\ logical_supported
  /\ IsPhysical(fed[1]) /\ IsLogical(fed[2]) /\ IsPhysical(fed[3])
  /\ Len(dest) = 3

AllFour(s) == \A i \in 1..4 : s[Corners[i]] # None

Intersection(s) ==
  s.top_left[1].prefixes \cap s.top_right[1].prefixes
  \cap s.bottom_left[1].prefixes \cap s.bottom_right[1].prefixes

\* d declares corner i under prefix q
CoversPrefix(d, i, q) ==
  /\ d.parsed
  /\ d.id \in {PhysicalIdSeq[i], "BorderRadius"}
  /\ q \in d.vp

\* C5: a flush that finds the four physical corners pending with a non-empty
\* intersection of their prefix sets appends first one shorthand with the
\* four values and that intersection, then, in corner order, one longhand
\* for each corner that has prefixes outside the intersection, with those
\* prefixes (a set holding the unprefixed member being replaced by the
\* prefixes of the targets when targets are configured), and nothing else.
\* With no targets every pending (corner, prefix) pair is declared exactly
\* once, and four corners pending with the same single prefix give the
\* shorthand alone.
C5_ShorthandThenLeftovers ==
  (hpc = "open" /\ AllFour(Self) /\ Intersection(Self) # {}) =>
    LET I == Intersection(Self)
        P(i) == Self[Corners[i]][1].prefixes
        V(i) == Self[Corners[i]][1].val
        out == Appended(Flush(Self))
        left == {i \in 1..4 : P(i) \ I # {}}
    IN
    /\ Len(out) = 1 + Cardinality(left)
    /\ out[1] = Prop("BorderRadius", TRUE,
                     BorderRadiusValue(V(1), V(2), V(3), V(4)), Expand(I))
    /\ \A i \in left : \E k \in 2..Len(out) :
         /\ out[k] = Prop(PhysicalIdSeq[i], TRUE, V(i), Expand(P(i) \ I))
         /\ k = 1 + Cardinality({j \in left : j <= i})
    /\ targets = None =>
         \A i \in 1..4 : \A q \in P(i) :
           Cardinality({k \in 1..Len(out) : CoversPrefix(out[k], i, q)}) = 1
    /\ (\E q \in Prefixes : \A i \in 1..4 : P(i) = {q}) => Len(out) = 1

\* C5 witness: finalize found the four corners of a shorthand pending, one
\* of them with a second prefix, and has emitted a shorthand and a longhand.
C5_Witness ==
  /\ hpc = "finalized" /\ Len(fed) = 2 /\ targets = None
  /\ fed[1].parsed /\ fed[1].id = "BorderRadius" /\ IsPhysical(fed[2])
  /\ Len(dest) = 2
  /\ dest[1].id = "BorderRadius" /\ dest[1].vp = fed[1].vp
  /\ dest[2].id = fed[2].id /\ dest[2].vp = fed[2].vp

DiscardLogical(s) ==
  [s EXCEPT !.start_start = None, !.start_end = None,
            !.end_start = None, !.end_end = None]

\* the four physical longhands of a shorthand, accepted one after another
FourLonghands(s, val, vp) ==
  HandleProperty(
    HandleProperty(
      HandleProperty(
        HandleProperty(s, Prop("BorderTopLeftRadius", TRUE, val.top_left, vp)),
        Prop("BorderTopRightRadius", TRUE, val.top_right, vp)),
      Prop("BorderBottomLeftRadius", TRUE, val.bottom_left, vp)),
    Prop("BorderBottomRightRadius", TRUE, val.bottom_right, vp))

\* C6 as claimed: accepting a shorthand is discarding the pending logical
\* corners and accepting its four longhands one after another.
C6_ShorthandIsFourLonghands ==
  hpc = "open" =>
    \A p \in ShorthandInputs :
      HandleProperty(Self, p) = FourLonghands(DiscardLogical(Self), p.val, p.vp)

\* some corner is pending with a value other than the shorthand's for it and
\* a prefix set that does not contain the shorthand's prefix
ShorthandConflicts(s, p) ==
  \E i \in 1..4 :
    Conflicts(s, Prop(PhysicalIdSeq[i], TRUE, p.val[Corners[i]], p.vp))

\* C6 amended: accepting a shorthand is discarding the pending logical
\* corners, then flushing once if some corner conflicts with the shorthand
\* (all four checks are made before any corner is stored), then accepting
\* its four longhands one after another.
C6_ShorthandFlushesFirst ==
  hpc = "open" =>
    \A p \in ShorthandInputs :
      LET s0 == DiscardLogical(Self)
          s1 == IF ShorthandConflicts(s0, p) THEN Flush(s0) ELSE s0
      IN HandleProperty(Self, p) = FourLonghands(s1, p.val, p.vp)

\* C6 witness: a shorthand was accepted that conflicts with the second
\* corner and not with the first: both old corners are in the output, and
\* the four corners hold the shorthand's values with its prefix alone.
C6_Witness ==
  /\ hpc = "open" /\ Len(fed) = 2
  /\ IsPhysical(fed[1]) /\ fed[1].id = "BorderTopRightRadius"
  /\ fed[2].parsed /\ fed[2].id = "BorderRadius"
  /\ fed[2].val.top_right # fed[1].val /\ fed[2].vp # fed[1].vp
  /\ Len(dest) = 1
  /\ AllFour(Self)
  /\ \A i \in 1..4 : Self[Corners[i]][1].prefixes = fed[2].vp

\* the parsed declaration an unparsed one corresponds to
Parsed(u) ==
  IF u.id = "BorderRadius"
  THEN Prop(u.id, TRUE, BorderRadiusValue(u.val, u.val, u.val, u.val), u.vp)
  ELSE Prop(u.id, TRUE, u.val, u.vp)

\* the slots of the handler that hold something
PendingSlots(s) ==
  {f \in {"top_left", "top_right", "bottom_left", "bottom_right",
          "start_start", "start_end", "end_start", "end_end"} : s[f] # None}

\* C7 as claimed: an unparsed corner or shorthand declaration is handled like
\* the parsed one: the same output (a flush on a change of category only, the
\* declaration itself deferred), the same slots pending, the same category.
C7_UnparsedLikeParsed ==
  hpc = "open" =>
    \A u \in UnparsedInputs :
      LET a == HandleProperty(Self, u)
          b == HandleProperty(Self, Parsed(u))
      IN /\ a.dest = b.dest
         /\ a.rules = b.rules
         /\ PendingSlots(a) = PendingSlots(b)
         /\ a.category = b.category
         /\ a.has_any = b.has_any

\* C7 amended: an unparsed logical corner is handled like the parsed one,
\* the stored declaration being the unparsed one. An unparsed physical
\* corner or shorthand is not stored: everything pending is flushed
\* (pending logical corners are emitted, not discarded), the declaration is
\* appended to the output at once with its prefix expanded for the targets,
\* all slots are left empty and the category is unchanged.
C7_UnparsedHandling ==
  hpc = "open" =>
    LET flushed == Flush(Self) IN
    \A u \in UnparsedInputs :
      LET a == HandleProperty(Self, u)
          b == HandleProperty(Self, Parsed(u))
      IN
      /\ Handled(u)
      /\ u.id \in LogicalIds => a = [b EXCEPT ![FieldOf(u.id)] = Some(u)]
      /\ u.id \notin LogicalIds =>
           /\ a.dest = flushed.dest \o <<GetPrefixed(u)>>
           /\ a.rules = flushed.rules
           /\ PendingSlots(a) = {}
           /\ a.category = category
           /\ ~a.has_any

\* C7 witness: an unparsed physical corner was accepted while a logical
\* corner was pending: both are in the output and nothing is pending.
C7_Witness ==
  /\ hpc = "open" /\ Len(fed) = 2 /\ logical_supported
  /\ IsLogical(fed[1])
  /\ ~fed[2].parsed /\ fed[2].id \in PhysicalIds
  /\ dest = <<fed[1], GetPrefixed(fed[2])>>
  /\ PendingSlots(Self) = {}
  /\ category = "Logical"

-----------------------------------------------------------------------------
(* The claims about MediaCondition::parse. *)

\* The tokens of one nesting level of a stream, from p to lim, a block
\* being the one item "(": white space left out.
RECURSIVE Items(_, _, _)
Items(toks, p, lim) ==
  LET n == ParserNext(toks, p, lim) IN
  IF ~n.ok THEN <<>>
  ELSE <<[tok |-> n.tok, at |-> n.at]>> \o Items(toks, n.pos, lim)

IsKeyword(t) == IsIdent(t) /\ Lower(t) \in {"and", "or"}

\* Where the condition of a one-segment stream begins: at the first token
\* when no identifier leads the stream, or one alone (a `not`); otherwise
\* after the identifiers that lead it (qualifier, media type, `and`).
ConditionStart(toks) ==
  LET items == Items(toks, 1, Len(toks) + 1)
      n == Cardinality({i \in 1..Len(items) :
                          \A j \in 1..i : IsIdent(items[j].tok)})
  IN IF n <= 1 \/ n = Len(items) THEN 1 ELSE items[n + 1].at

\* a level that is groups joined by keywords: G (kw G)*
IsChain(items) ==
  /\ Len(items) % 2 = 1
  /\ \A i \in 1..Len(items) :
       IF i % 2 = 1 THEN items[i].tok = "(" ELSE IsKeyword(items[i].tok)

Keywords(items) ==
  {Lower(items[i].tok) : i \in {j \in 1..Len(items) : j % 2 = 0}}

\* The level from p to lim, or a level nested in its groups, joins operands
\* with both `and` and `or`.
RECURSIVE HasMixedLevel(_, _, _)
HasMixedLevel(toks, p, lim) ==
  LET items == Items(toks, p, lim) IN
  /\ IsChain(items)
  /\ \/ Keywords(items) = {"and", "or"}
     \/ \E i \in 1..Len(items) :
          /\ i % 2 = 1
          /\ HasMixedLevel(toks, items[i].at + 1, MatchClose(toks, items[i].at))

RECURSIVE WellJoined(_, _, _, _)
\* c is the operand read from the group at open: a feature, or InParens of
\* the condition of the group's level; never an Operation merged in.
WellJoinedOperand(c, toks, open) ==
  \/ c.tag = "Feature"
  \/ /\ c.tag = "InParens"
     /\ WellJoined(c.inner, toks, open + 1, MatchClose(toks, open))

\* c is a condition of the level from p to lim: an Operation has one operand
\* for each group of the level, at least two, and the keywords of the level
\* are all its operator.
WellJoined(c, toks, p, lim) ==
  LET items == Items(toks, p, lim) IN
  CASE c.tag = "Operation" ->
         /\ IsChain(items)
         /\ Len(c.conditions) >= 2
         /\ Len(items) = 2 * Len(c.conditions) - 1
         /\ Keywords(items) = {IF c.op = "And" THEN "and" ELSE "or"}
         /\ \A k \in 1..Len(c.conditions) :
              WellJoinedOperand(c.conditions[k], toks, items[2 * k - 1].at)
    [] c.tag = "Not" ->
         /\ Len(items) = 2
         /\ items[2].tok = "("
         /\ WellJoinedOperand(c.inner, toks, items[2].at)
    [] OTHER ->
         /\ Len(items) = 1
         /\ items[1].tok = "("
         /\ WellJoinedOperand(c, toks, items[1].at)

\* C8: every Operation of a parsed condition has at least two operands, one
\* for each group of its nesting level, and the keywords of that level are
\* all its operator; a stream that joins groups with both `and` and `or` at
\* one level gives no query; a differently joined part in parentheses of its
\* own is one operand, InParens of an Operation.
C8_SameOperatorChains ==
  pc = "done" =>
    /\ HasMixedLevel(input, ConditionStart(input), Len(input) + 1)
         => media_queries = <<>>
    /\ \A i \in 1..Len(media_queries) :
         media_queries[i].condition # None =>
           WellJoined(media_queries[i].condition[1], input,
                      ConditionStart(input), Len(input) + 1)

\* C8 witness: `(... and ...) or ...` was parsed: an Or of two operands, the
\* first InParens of an And of two.
C8_Witness ==
  /\ pc = "done"
  /\ Len(media_queries) = 1
  /\ media_queries[1].condition # None
  /\ LET c == media_queries[1].condition[1] IN
     /\ c.tag = "Operation" /\ c.op = "Or" /\ Len(c.conditions) = 2
     /\ c.conditions[1].tag = "InParens"
     /\ c.conditions[1].inner.tag = "Operation"
     /\ c.conditions[1].inner.op = "And"

\* `(a: 1) and (b: 2)`
Example9 ==
  <<"(", "a", ":", "ws", "1", ")", "ws", "and", "ws",
    "(", "b", ":", "ws", "2", ")">>

\* C9 as claimed: of `(a: 1) and (b: 2)` the first operand is the feature
\* and the second InParens of a feature, and in every chain the operands
\* after the first are InParens.
C9_LaterOperandsInParens ==
  pc = "done" =>
    /\ input = Example9 =>
         /\ Len(media_queries) = 1
         /\ media_queries[1].condition[1].tag = "Operation"
         /\ media_queries[1].condition[1].conditions[1].tag = "Feature"
         /\ media_queries[1].condition[1].conditions[2].tag = "InParens"
    /\ \A i \in 1..Len(media_queries) :
         LET c == media_queries[i].condition IN
         (c # None /\ c[1].tag = "Operation") =>
           \A k \in 2..Len(c[1].conditions) :
             c[1].conditions[k].tag = "InParens"

\* C9 amended: `(a: 1) and (b: 2)` gives Operation([Feature a, Feature b],
\* And), each value the raw text after the colon; every operand of a chain,
\* the first and the later ones alike, is what parse_paren_block gives for
\* its own group: a Feature for a feature test, InParens around a nested
\* condition only.
C9_OperandsAsParsed ==
  pc = "done" =>
    /\ input = Example9 =>
         media_queries =
           <<[qualifier |-> None,
              media_type |-> [kind |-> "All", name |-> ""],
              condition |->
                Some(Operation(<<Feature("a", None, Some(<<"ws", "1">>)),
                                 Feature("b", None, Some(<<"ws", "2">>))>>,
                               "And"))]>>
    /\ \A i \in 1..Len(media_queries) :
         LET c == media_queries[i].condition
             items == Items(input, ConditionStart(input), Len(input) + 1)
         IN
         (c # None /\ c[1].tag = "Operation") =>
           \A k \in 1..Len(c[1].conditions) :
             /\ c[1].conditions[k]
                  = ParseParenBlock(input, items[2 * k - 1].at).val
             /\ c[1].conditions[k].tag = "InParens" <=>
                  CondParse(input, items[2 * k - 1].at + 1,
                            MatchClose(input, items[2 * k - 1].at), TRUE).ok

\* C9 witness: `(a: 1) and (b: 2)` was parsed to one query.
C9_Witness ==
  /\ pc = "done"
  /\ input = Example9
  /\ Len(media_queries) = 1

-----------------------------------------------------------------------------
(* The claims about MediaQuery::parse and the feature expression. *)

\* C11 as claimed: the condition of a parsed query is never an Operation
\* whose operator is Or.
C11_NoOrAtFirstLevel ==
  pc = "done" =>
    \A i \in 1..Len(media_queries) :
      LET c == media_queries[i].condition IN
      c # None => ~(c[1].tag = "Operation" /\ c[1].op = "Or")

\* the stream has one top-level segment
OneSegment(toks) == SegEnd(toks, 1) > Len(toks)

\* the whole stream parsed as a condition: the list of the one query it
\* gives, with no qualifier and media type All
AsCondition(toks) ==
  LET c == CondParse(toks, 1, Len(toks) + 1, TRUE) IN
  IF c.ok /\ Exhausted(toks, c.pos, Len(toks) + 1)
  THEN <<[qualifier |-> None, media_type |-> [kind |-> "All", name |-> ""],
          condition |-> Some(c.val)]>>
  ELSE <<>>

\* `not (a)`
Example12 == <<"not", "(", "a", ")">>

\* C12: the qualifier and the explicit media type are all or nothing. When
\* `only` or `not` leads the query and no identifier follows it, the query
\* is what the whole stream gives when it is parsed as a condition from its
\* first token, with no qualifier and media type All (`not (a)` gives the
\* condition Not(Feature a)). A query has a qualifier only if the first
\* token is `only` or `not` and the second an identifier, which is then its
\* media type.
C12_QualifierAllOrNothing ==
  (pc = "done" /\ OneSegment(input)) =>
    LET items == Items(input, 1, Len(input) + 1)
        led == /\ Len(items) >= 1 /\ IsIdent(items[1].tok)
               /\ Lower(items[1].tok) \in {"only", "not"}
        followed == Len(items) >= 2 /\ IsIdent(items[2].tok)
    IN
    /\ (led /\ ~followed) => media_queries = AsCondition(input)
    /\ \A i \in 1..Len(media_queries) :
         media_queries[i].qualifier # None =>
           /\ led /\ followed
           /\ media_queries[i].qualifier =
                Some(IF Lower(items[1].tok) = "not" THEN "Not" ELSE "Only")
           /\ media_queries[i].media_type = MediaTypeParse(items[2].tok)
    /\ input = Example12 =>
         media_queries =
           <<[qualifier |-> None,
              media_type |-> [kind |-> "All", name |-> ""],
              condition |-> Some(Not(Feature("a", None, None)))]>>

\* C12 witness: `not (a)` was parsed to one query without a qualifier.
C12_Witness ==
  /\ pc = "done"
  /\ input = Example12
  /\ Len(media_queries) = 1
  /\ media_queries[1].qualifier = None

\* the one query a condition makes
ConditionQuery(c) ==
  [qualifier |-> None, media_type |-> [kind |-> "All", name |-> ""],
   condition |-> Some(c)]

\* What the group `(width ...)` gives, read off the tokens after the name:
\* the operator and the value, or the bare existence test, which is a
\* query only if nothing but white space follows the name.
FeatureOf(toks) ==
  LET lim == Len(toks)
      n1 == ParserNext(toks, 3, lim)
      n2 == ParserNext(toks, n1.pos, lim)
      eq == n2.ok /\ n2.tok = "="
      rest(p) == Some(Exhaust(toks, p, lim))
  IN
  IF n1.ok /\ n1.tok = ":" THEN <<Feature("width", None, rest(n1.pos))>>
  ELSE IF n1.ok /\ n1.tok = "="
       THEN <<Feature("width", Some("Equal"), rest(n1.pos))>>
  ELSE IF n1.ok /\ n1.tok = ">"
       THEN IF eq
            THEN <<Feature("width", Some("GreaterThanEqual"), rest(n2.pos))>>
            ELSE <<Feature("width", Some("GreaterThan"), rest(n1.pos))>>
  ELSE IF n1.ok /\ n1.tok = "<"
       THEN IF eq
            THEN <<Feature("width", Some("LessThanEqual"), rest(n2.pos))>>
            ELSE <<Feature("width", Some("LessThan"), rest(n1.pos))>>
  ELSE IF ~n1.ok THEN <<Feature("width", None, None)>>
  ELSE <<>>

\* `(width >= 100px)`
Example13 == <<"(", "width", "ws", ">", "=", "ws", "100px", ")">>

\* The operator and value rules of the feature expression: after the
\* feature name a colon gives no operator and a value, `=`, `>`, `>=`, `<`,
\* `<=` their operators and a value, the value being all the rest of the
\* group; anything else gives the bare existence test; an operator implies a
\* value.
FeatureRules ==
  pc = "done" =>
    /\ media_queries = [i \in 1..Len(FeatureOf(input)) |->
                          ConditionQuery(FeatureOf(input)[i])]
    /\ \A i \in 1..Len(media_queries) :
         LET f == media_queries[i].condition[1] IN
         f.operator # None => f.value # None

\* C13 as claimed: the operator and value rules, and `(width >= 100px)`
\* gives a query of media type All with the condition Feature{width,
\* GreaterThanEqual, 100px}.
C13_FeatureOperators ==
  /\ FeatureRules
  /\ (pc = "done" /\ input = Example13) =>
       media_queries =
         <<ConditionQuery(Feature("width", Some("GreaterThanEqual"),
                                  Some(<<"100px">>)))>>

-----------------------------------------------------------------------------
(* More claims about BorderRadiusHandler. *)

IsPendingCorner(i) == Self[Corners[i]] # None

\* the physical corners pending, in corner order
PendingCorners == SelectSeq(<<1, 2, 3, 4>>, IsPendingCorner)

IsShorthand(d) == d.id = "BorderRadius"
IsCornerLonghand(d) == d.id \in PhysicalIds

\* C14: a flush emits a shorthand only when all four physical corners are
\* pending. When fewer than four are pending it emits no shorthand and
\* exactly one longhand for each pending corner, with the corner's value and
\* prefixes, in the order top-left, top-right, bottom-left, bottom-right;
\* two different corners fed and finalize give exactly two longhands.
C14_FewerThanFourNoShorthand ==
  /\ hpc = "open" =>
       LET out == Appended(Flush(Self)) IN
       /\ SelectSeq(out, IsShorthand) # <<>> => AllFour(Self)
       /\ ~AllFour(Self) =>
            SelectSeq(out, IsCornerLonghand) =
              [k \in 1..Len(PendingCorners) |->
                 LET i == PendingCorners[k] IN
                 Prop(PhysicalIdSeq[i], TRUE, Self[Corners[i]][1].val,
                      Expand(Self[Corners[i]][1].prefixes))]
  /\ (/\ hpc = "finalized" /\ Len(fed) = 2
      /\ IsPhysical(fed[1]) /\ IsPhysical(fed[2]) /\ fed[1].id # fed[2].id)
     => /\ Len(dest) = 2
        /\ {dest[1].id, dest[2].id} = {fed[1].id, fed[2].id}
        /\ \E i, j \in 1..4 :
             i < j /\ dest[1].id = PhysicalIdSeq[i]
                   /\ dest[2].id = PhysicalIdSeq[j]

\* C14 witness: top-right and then top-left were fed and finalize has
\* emitted two longhands, top-left first.
C14_Witness ==
  /\ hpc = "finalized" /\ Len(fed) = 2
  /\ IsPhysical(fed[1]) /\ fed[1].id = "BorderTopRightRadius"
  /\ IsPhysical(fed[2]) /\ fed[2].id = "BorderTopLeftRadius"
  /\ Len(dest) = 2
  /\ dest[1].id = "BorderTopLeftRadius" /\ dest[2].id = "BorderTopRightRadius"

\* the media type an identifier names
TypeOf(tok) ==
  CASE tok \in {"all"} -> [kind |-> "All", name |-> ""]
    [] tok \in {"print"} -> [kind |-> "Print", name |-> ""]
    [] tok \in {"screen", "Screen"} -> [kind |-> "Screen", name |-> ""]
    [] OTHER -> [kind |-> "Custom", name |-> tok]

\* The item of a one-segment stream that is its explicit media type: the
\* identifier after a leading `only` or `not`, or else a leading
\* identifier; 0 when there is none.
TypeItem(items) ==
  IF Len(items) = 0 \/ ~IsIdent(items[1].tok) THEN 0
  ELSE IF Lower(items[1].tok) \in {"only", "not"}
       THEN IF Len(items) >= 2 /\ IsIdent(items[2].tok) THEN 2 ELSE 0
  ELSE 1

\* The list a one-segment stream with an explicit media type gives: a query
\* without a condition when nothing follows the type, with the condition
\* read after `and` when `and` follows it, and nothing otherwise.
WithType(toks, items, k) ==
  LET lim == Len(toks) + 1
      q == [qualifier |-> IF k = 2
                          THEN Some(IF Lower(items[1].tok) = "not"
                                    THEN "Not" ELSE "Only")
                          ELSE None,
            media_type |-> TypeOf(items[k].tok),
            condition |-> None]
      c == CondParse(toks, items[k + 1].at + 1, lim, FALSE)
  IN
  IF Len(items) = k THEN <<q>>
  ELSE IF IsIdent(items[k + 1].tok) /\ Lower(items[k + 1].tok) = "and"
          /\ c.ok /\ Exhausted(toks, c.pos, lim)
       THEN <<[q EXCEPT !.condition = Some(c.val)]>>
  ELSE <<>>

\* C15: how MediaQuery::parse assembles a query. Without an explicit media
\* type the query is the whole stream as a condition, with no qualifier and
\* media type All, and fails when the condition fails. With one, the query
\* has a condition if and only if `and` follows the type, the condition
\* being read after the `and`, which is not stored, and its failure failing
\* the query. `not all` gives qualifier Not, type All, no condition; all,
\* print, screen are matched whatever their case and another name is Custom
\* with the casing it was written in.
C15_QueryAssembly ==
  (pc = "done" /\ OneSegment(input)) =>
    LET items == Items(input, 1, Len(input) + 1)
        k == TypeItem(items)
    IN
    /\ k = 0 => media_queries = AsCondition(input)
    /\ k > 0 => media_queries = WithType(input, items, k)
    /\ input = <<"not", "all">> =>
         media_queries =
           <<[qualifier |-> Some("Not"),
              media_type |-> [kind |-> "All", name |-> ""],
              condition |-> None]>>
    /\ input = <<"Screen">> =>
         media_queries =
           <<[qualifier |-> None,
              media_type |-> [kind |-> "Screen", name |-> ""],
              condition |-> None]>>
    /\ input = <<"Foo">> =>
         media_queries =
           <<[qualifier |-> None,
              media_type |-> [kind |-> "Custom", name |-> "Foo"],
              condition |-> None]>>

\* C15 witness: `not Foo and (a)` was parsed: qualifier Not, the type
\* Custom(Foo), and the condition of the group after the `and`.
C15_Witness ==
  /\ pc = "done"
  /\ input = <<"not", "Foo", "and", "(", "a", ")">>
  /\ media_queries =
       <<[qualifier |-> Some("Not"),
          media_type |-> [kind |-> "Custom", name |-> "Foo"],
          condition |-> Some(Feature("a", None, None))]>>

\* What a declaration declares: a corner under a prefix counts one, so a
\* longhand counts its prefixes and a shorthand four times its prefixes; a
\* logical or an unparsed declaration counts one, any other property none.
Weight(d) ==
  IF ~is_border_radius_property(d.id) THEN 0
  ELSE IF ~d.parsed \/ d.id \in LogicalIds THEN 1
  ELSE IF d.id = "BorderRadius" THEN 4 * Cardinality(d.vp)
  ELSE Cardinality(d.vp)

RECURSIVE TotalWeight(_)
TotalWeight(ds) ==
  IF ds = <<>> THEN 0 ELSE Weight(Head(ds)) + TotalWeight(Tail(ds))

\* A flush emits what was accepted since the flush before it and no
\* more. After a flush the eight slots are empty and the dirty flag is
\* clear, so a second flush (finalize with no corner input since the last
\* flush) appends nothing and registers no rule, as does finalize on a
\* handler that accepted no corner input at all. No input is written by two
\* flushes: with no targets the output declares no more corners under
\* prefixes, logical corners and unparsed declarations than were accepted.
FlushDrains ==
  /\ LET f == Flush(Self) IN
     /\ PendingSlots(f) = {}
     /\ ~f.has_any
     /\ Flush(f) = f
  /\ ~has_any => (PendingSlots(Self) = {} /\ Flush(Self) = Self)
  /\ hpc = "finalized" =>
       /\ PendingSlots(Self) = {} /\ ~has_any
       /\ (\A i \in 1..Len(fed) : ~Handled(fed[i])) =>
            (dest = <<>> /\ rules = <<>>)
       /\ targets = None =>
            TotalWeight(dest) + Len(rules) <= TotalWeight(fed)

\* C16: in every reachable state of the handler a flush emits what was
\* accepted since the flush before it and no more, and a flush that follows
\* a flush with no corner input between them appends nothing.
C16_FlushDrains == []FlushDrains

\* C16 witness: a physical corner was flushed by the logical corner fed
\* after it, and finalize has written the logical corner alone.
C16_Witness ==
  /\ hpc = "finalized" /\ Len(fed) = 2 /\ logical_supported
  /\ IsPhysical(fed[1]) /\ IsLogical(fed[2])
  /\ dest = <<Emitted(fed[1]), fed[2]>>
  /\ PendingSlots(Self) = {}

\* A property that is neither a corner nor the shorthand, parsed or
\* unparsed, is not handled: handle_property returns false and the handler,
\* the output and the registered rules are what they were, so that what was
\* pending before it is still pending after it. Every corner or shorthand
\* property, parsed or unparsed, is handled: handle_property returns true.
OtherPropertyUntouched ==
  /\ \A i \in 1..Len(ret) :
       ret[i] = (fed[i].id \in PhysicalIds \cup LogicalIds \cup {"BorderRadius"})
  /\ hpc = "open" =>
       \A p \in OtherInputs : ~Handled(p) /\ HandleProperty(Self, p) = Self
  /\ \A p \in PhysicalInputs : Handled(p)
  /\ \A p \in ShorthandInputs : Handled(p)
  /\ \A p \in LogicalInputs : Handled(p)
  /\ \A p \in UnparsedInputs : Handled(p)
  /\ (/\ hpc = "finalized" /\ Len(fed) = 2
      /\ IsPhysical(fed[1]) /\ fed[2].id = "Color")
     => dest = <<Emitted(fed[1])>>

\* C17: in every reachable state of the handler a property of another
\* family is not handled and changes nothing, handle_property returning
\* false, and every corner or shorthand property is handled.
C17_OtherPropertyUntouched == []OtherPropertyUntouched

\* C17 witness: an unparsed property of another family came after a
\* corner: it was not handled and finalize has written the corner alone.
C17_Witness ==
  /\ hpc = "finalized" /\ Len(fed) = 2
  /\ IsPhysical(fed[1])
  /\ ~fed[2].parsed /\ fed[2].id = "Color"
  /\ ret = <<TRUE, FALSE>>
  /\ dest = <<Emitted(fed[1])>>
  /\ rules = <<>>

-----------------------------------------------------------------------------
(* The round trip through a stub printer. A white space token of the      *)
(* printed text is one space: the space the printer writes and the white  *)
(* space a value holds are two tokens.                                    *)

\* the operator of a feature as it is written
OperatorTokens(operator) ==
  CASE operator = None -> <<":">>
    [] operator = Some("Equal") -> <<"ws", "=">>
    [] operator = Some("GreaterThan") -> <<"ws", ">">>
    [] operator = Some("GreaterThanEqual") -> <<"ws", ">", "=">>
    [] operator = Some("LessThan") -> <<"ws", "<">>
    [] operator = Some("LessThanEqual") -> <<"ws", "<", "=">>

\* `(name op value)`, gap being what the printer writes between the
\* operator and the value
PrintFeature(f, gap) ==
  <<"(", f.name>>
  \o (IF f.value = None THEN <<>>
      ELSE OperatorTokens(f.operator) \o gap \o f.value[1])
  \o <<")">>

RECURSIVE PrintCondition(_, _)
RECURSIVE PrintOperands(_, _, _)

\* the operands of an Operation joined by its keyword
PrintOperands(cs, kw, gap) ==
  IF Len(cs) = 1 THEN PrintCondition(cs[1], gap)
  ELSE PrintCondition(cs[1], gap) \o <<"ws", kw, "ws">>
       \o PrintOperands(Tail(cs), kw, gap)

PrintCondition(c, gap) ==
  CASE c.tag = "Feature" -> PrintFeature(c, gap)
    [] c.tag = "InParens" -> <<"(">> \o PrintCondition(c.inner, gap) \o <<")">>
    [] c.tag = "Not" -> <<"not", "ws">> \o PrintCondition(c.inner, gap)
    [] c.tag = "Operation" ->
         PrintOperands(c.conditions, IF c.op = "And" THEN "and" ELSE "or", gap)

\* the name a media type is written with
TypeName(media_type) ==
  CASE media_type.kind = "All" -> "all"
    [] media_type.kind = "Print" -> "print"
    [] media_type.kind = "Screen" -> "screen"
    [] OTHER -> media_type.name

\* a query: qualifier, media type, `and`, condition; a condition with no
\* qualifier and the media type All is written alone
PrintQuery(q, gap) ==
  IF q.qualifier = None /\ q.media_type.kind = "All" /\ q.condition # None
  THEN PrintCondition(q.condition[1], gap)
  ELSE (IF q.qualifier = None THEN <<>>
        ELSE <<IF q.qualifier[1] = "Not" THEN "not" ELSE "only", "ws">>)
       \o <<TypeName(q.media_type)>>
       \o (IF q.condition = None THEN <<>>
           ELSE <<"ws", "and", "ws">> \o PrintCondition(q.condition[1], gap))

\* the queries joined by commas
RECURSIVE PrintList(_, _)
PrintList(qs, gap) ==
  IF qs = <<>> THEN <<>>
  ELSE IF Len(qs) = 1 THEN PrintQuery(qs[1], gap)
  ELSE PrintQuery(qs[1], gap) \o <<",", "ws">> \o PrintList(Tail(qs), gap)

\* the list parsed again from its printed text is the list
RoundTrip(gap) ==
  pc = "done" =>
    MediaListParse(PrintList(media_queries, gap), 1, <<>>) = media_queries

\* C18 as claimed: the list printed by the stub printer and parsed again is
\* equal to the list, the printer writing a feature as `(name op value)`,
\* with a space between the operator and the value or with none.
C18_RoundTrip == RoundTrip(<<"ws">>) \/ RoundTrip(<<>>)

-----------------------------------------------------------------------------
(* Values and prefixes of a block of physical longhands. *)

\* the value d declares for corner i
ValueOf(d, i) == IF d.id = "BorderRadius" THEN d.val[Corners[i]] ELSE d.val

\* the inputs that declared corner i under prefix q
Declared(i, q) ==
  {k \in 1..Len(fed) : fed[k].id = PhysicalIdSeq[i] /\ q \in fed[k].vp}

\* the output declarations that cover corner i under prefix q
Covering(i, q) == {j \in 1..Len(dest) : CoversPrefix(dest[j], i, q)}

Last(S) == CHOOSE k \in S : \A j \in S : j <= k

\* C19: after a block of parsed physical longhands, one prefix each, and
\* finalize, with no targets, the last output declaration that covers a
\* corner under a prefix carries the value of the last input that declared
\* the corner under the prefix, and no declaration gives a corner under a
\* prefix a value that no input declared for it under that prefix.
C19_LastValuePerPrefix ==
  (/\ hpc = "finalized" /\ targets = None
   /\ \A k \in 1..Len(fed) : IsPhysical(fed[k]))
  =>
  \A i \in 1..4 : \A q \in Prefixes :
    /\ Declared(i, q) # {} =>
         /\ Covering(i, q) # {}
         /\ ValueOf(dest[Last(Covering(i, q))], i)
              = fed[Last(Declared(i, q))].val
    /\ \A j \in Covering(i, q) : \E k \in Declared(i, q) :
         fed[k].val = ValueOf(dest[j], i)

-----------------------------------------------------------------------------
(* The category of what is pending. *)

PhysicalPending == \E i \in 1..4 : Self[Corners[i]] # None
LogicalPending == \E i \in 1..4 : Self[LogicalCorners[i]] # None

\* the corner p arrives in another category: what was pending is flushed
\* first, and p alone is pending afterwards
SwitchFlushes(flushed, p) ==
  LET after == HandleProperty(Self, p) IN
  /\ after.dest = flushed.dest
  /\ after.rules = flushed.rules
  /\ \A i \in 1..4 :
       /\ after[Corners[i]] # None => Corners[i] = FieldOf(p.id)
       /\ after[LogicalCorners[i]] # None => LogicalCorners[i] = FieldOf(p.id)
  /\ after[FieldOf(p.id)] # None

\* Physical corners and logical corners are never pending together,
\* and what is pending is of the current category; a physical corner that
\* arrives while the category is Logical, and a logical corner that arrives
\* while it is Physical, first flush everything that is pending.
OneCategoryPending ==
  /\ ~(PhysicalPending /\ LogicalPending)
  /\ PhysicalPending => category = "Physical"
  /\ LogicalPending => category = "Logical"
  /\ hpc = "open" =>
       LET flushed == Flush(Self) IN
       /\ category = "Logical" =>
            \A p \in PhysicalInputs : SwitchFlushes(flushed, p)
       /\ category = "Physical" =>
            \A p \in LogicalInputs : SwitchFlushes(flushed, p)

\* C20: in every reachable state of the handler the physical corners and
\* the logical corners are never pending together, what is pending is of
\* the current category, and a corner of the other category first flushes
\* everything that is pending.
C20_OneCategoryPending == []OneCategoryPending

\* C20 witness: a physical corner arrived while a logical corner was
\* pending; the logical corner is in the output, the physical one pending.
C20_Witness ==
  /\ hpc = "open" /\ Len(fed) = 2
  /\ IsLogical(fed[1]) /\ IsPhysical(fed[2])
  /\ PhysicalPending /\ ~LogicalPending
  /\ category = "Physical"
  /\ Len(dest) >= 1

-----------------------------------------------------------------------------
(* The logical corners at a flush. *)

IsPendingLogical(i) == Self[LogicalCorners[i]] # None
PendingLogical == SelectSeq(<<1, 2, 3, 4>>, IsPendingLogical)
IsLogicalDeclaration(d) == d.id \in LogicalIds

\* the physical corner of a logical corner in each direction
LeftToRight == <<"BorderTopLeftRadius", "BorderTopRightRadius",
                 "BorderBottomLeftRadius", "BorderBottomRightRadius">>
RightToLeft == <<"BorderTopRightRadius", "BorderTopLeftRadius",
                 "BorderBottomRightRadius", "BorderBottomLeftRadius">>

\* the pair r is the fallback of the declaration d pending for corner i
IsFallback(r, d, i) ==
  /\ r.ltr.id = LeftToRight[i] /\ r.rtl.id = RightToLeft[i]
  /\ r.ltr.val = d.val /\ r.rtl.val = d.val
  /\ r.ltr.parsed = d.parsed /\ r.rtl.parsed = d.parsed
  /\ r.ltr.vp = r.rtl.vp

\* A flush writes the pending logical corners in the order start-start,
\* start-end, end-start, end-end, after the physical output: as they are
\* stored when logical border-radius is supported, and otherwise as one
\* fallback pair each, nothing being appended to the output for them.
LogicalAtFlush ==
  hpc = "open" =>
    LET f == Flush(Self)
        out == Appended(f)
        registered == SubSeq(f.rules, Len(rules) + 1, Len(f.rules))
        n == Len(PendingLogical)
        stored == [k \in 1..n |-> Self[LogicalCorners[PendingLogical[k]]][1]]
    IN
    IF logical_supported
    THEN /\ registered = <<>>
         /\ Len(out) >= n
         /\ SubSeq(out, Len(out) - n + 1, Len(out)) = stored
         /\ SelectSeq(out, IsLogicalDeclaration) = stored
    ELSE /\ SelectSeq(out, IsLogicalDeclaration) = <<>>
         /\ PendingLogical # <<>> => out = <<>>
         /\ Len(registered) = n
         /\ \A k \in 1..n :
              IsFallback(registered[k], stored[k], PendingLogical[k])

\* C21: in every reachable state of the handler a flush handles the pending
\* logical corners in the order start-start, start-end, end-start, end-end
\* after the physical output: the stored declaration unchanged when logical
\* border-radius is supported, otherwise nothing in the output and exactly
\* one fallback pair, (top-left, top-right) for start-start, (top-right,
\* top-left) for start-end, (bottom-left, bottom-right) for end-start and
\* (bottom-right, bottom-left) for end-end, both members with the value.
C21_LogicalAtFlush == []LogicalAtFlush

\* C21 witness: end-end and then start-start were fed with no support for
\* logical border-radius; finalize has registered the two pairs, that of
\* start-start first, and has written nothing.
C21_Witness ==
  /\ hpc = "finalized" /\ ~logical_supported /\ Len(fed) = 2
  /\ fed[1].id = "BorderEndEndRadius" /\ fed[2].id = "BorderStartStartRadius"
  /\ dest = <<>>
  /\ Len(rules) = 2
  /\ rules[1].ltr.id = "BorderTopLeftRadius"
  /\ rules[1].rtl.id = "BorderTopRightRadius"
  /\ rules[2].ltr.id = "BorderBottomRightRadius"
  /\ rules[2].rtl.id = "BorderBottomLeftRadius"

-----------------------------------------------------------------------------
(* The wrapper of a parenthesis group. *)

\* the tokens are the interior of a group: every block in them is closed
\* and no ")" closes a block that they do not open
Balanced(toks) ==
  /\ CloseFrom(toks, 1, 0) = Len(toks) + 1
  /\ Cardinality({i \in 1..Len(toks) : toks[i] = "("})
       = Cardinality({i \in 1..Len(toks) : toks[i] = ")"})

Group(interior) == <<"(">> \o interior \o <<")">>

\* what the interior alone makes of its group: InParens of the condition
\* that is the whole interior, else the feature expression that is the
\* whole interior, else nothing
Wrapper(interior) ==
  LET lim == Len(interior) + 1
      c == CondParse(interior, 1, lim, TRUE)
      f == FeatureParse(interior, 1, lim)
  IN
  IF c.ok /\ Exhausted(interior, c.pos, lim) THEN Some(InParens(c.val))
  ELSE IF f.ok /\ Exhausted(interior, f.pos, lim) THEN Some(f.val)
  ELSE None

\* the condition parsed from the whole of toks, or None
ConditionOf(toks) ==
  LET r == CondParse(toks, 1, Len(toks) + 1, TRUE) IN
  IF r.ok /\ Exhausted(toks, r.pos, Len(toks) + 1) THEN Some(r.val) ELSE None

\* The group of the interior `input` is what Wrapper makes of it, as the
\* first operand, as a later operand and as the operand of `not`.
WrapperOfInterior ==
  Balanced(input) =>
    LET w == Wrapper(input)
        first == ConditionOf(Group(input))
        later == ConditionOf(<<"(", "a", ")", "and">> \o Group(input))
        negated == ConditionOf(<<"not">> \o Group(input))
    IN
    IF w = None
    THEN first = None /\ later = None /\ negated = None
    ELSE /\ first = w
         /\ later = Some(Operation(<<Feature("a", None, None), w[1]>>, "And"))
         /\ negated = Some(Not(w[1]))
         /\ w[1].tag = "InParens" =>
              (input # <<>> /\ input[1] \in {"(", "not"})

\* C22: the wrapper of a parenthesis group depends on its interior alone and
\* is the same for the first operand, a later operand and the operand of
\* `not`: InParens(inner) exactly when the interior is a full condition,
\* otherwise Feature(expr) when a feature expression is the whole interior,
\* and the group fails to parse when the interior is neither.
C22_WrapperOfInterior == []WrapperOfInterior

\* C22 witness: the interior `not (a)` is a full condition, and its group
\* is InParens of it.
C22_WitnessCondition ==
  /\ input = <<"not", "(", "a", ")">>
  /\ ConditionOf(Group(input))
       = Some(InParens(Not(Feature("a", None, None))))

-----------------------------------------------------------------------------
(* The allow_or argument. *)

\* `screen and (a) or (b)`
Example23 ==
  <<"screen", "ws", "and", "ws", "(", "a", ")", "ws", "or", "ws",
    "(", "b", ")">>

\* the query of the example
Example23Query == QueryParse(Example23, 1, Len(Example23) + 1)

\* the input after an explicit media type and `and`
AfterScreenAnd(toks) == <<"screen", "ws", "and", "ws">> \o toks

\* MediaCondition::parse gives the same result and the same cursor on the
\* input, as the caller has it before the parse starts, with allow_or and
\* without it; after an explicit media type the
\* query has the condition the input has alone; the example is accepted.
AllowOrNoEffect ==
  pc = "input" =>
  LET lim == Len(input) + 1
      with == CondParse(input, 1, lim, TRUE)
      without == CondParse(input, 1, lim, FALSE)
      q == QueryParse(AfterScreenAnd(input), 1, lim + 4)
      e == Example23Query
  IN
  /\ with = without
  /\ q.ok = with.ok
  /\ q.ok => /\ q.val.condition = Some(with.val)
             /\ q.val.media_type.kind = "Screen"
             /\ q.pos = with.pos + 4
  /\ e.ok
  /\ e.val.condition
       = Some(Operation(<<Feature("a", None, None), Feature("b", None, None)>>,
                        "Or"))

-----------------------------------------------------------------------------
(* The length of the output. *)

\* the inputs for which handle_property returned true
HandledCount == Cardinality({i \in 1..Len(ret) : ret[i]})

\* The output, and the output a flush would leave, have no more
\* declarations than inputs were handled.
NeverGrows ==
  /\ Len(dest) <= HandledCount
  /\ hpc = "open" => Len(Flush(Self).dest) <= HandledCount

\* C24: the handler never grows the declaration list: after any sequence of
\* inputs, one vendor prefix each, and finalize, the declarations appended
\* to the output are at most as many as the inputs for which
\* handle_property returned true.
C24_NeverGrows == []NeverGrows

\* C24 witness: a corner was fed under -webkit- and a shorthand without
\* prefix; finalize has written two declarations for the two inputs, the
\* shorthand and the corner.
C24_Witness ==
  /\ hpc = "finalized" /\ Len(fed) = 2
  /\ IsPhysical(fed[1]) /\ fed[1].vp = {"WebKit"}
  /\ fed[2].parsed /\ fed[2].id = "BorderRadius" /\ fed[2].vp = {"None"}
  /\ HandledCount = 2
  /\ Len(dest) = 2
  /\ dest[1].id = "BorderRadius" /\ dest[2].id = fed[1].id

====
